---- MODULE Spec2Model ----
(***************************************************************************)
(* Falling-sand cellular automaton (src/src/main.rs): the particle grid of *)
(* FallingSand, the per-tick scan of Game::update and the movement         *)
(* primitives apply_gravity / apply_tumble / apply_spread.                 *)
(*                                                                         *)
(* One call of update() is modelled as UpdateBegin (key handling, spawn at *)
(* the mouse, counter reset) followed by one ScanCell step per iteration   *)
(* of the nested scan loop; the step for the last cell also flips the      *)
(* global parity, as the code does after the loop.  While a scan is in     *)
(* progress no other action is enabled, so a tick is never interleaved     *)
(* with input handling.                                                    *)
(*                                                                         *)
(* Particle records carry, next to the three fields of struct Particle,    *)
(* history fields that the program does not have and that no guard reads:  *)
(* origin/strain0/life0 (cell, strain and lifetime at the start of the     *)
(* current tick), moves (relocations during the current tick), decayed     *)
(* (what the particle had undergone when the dead-check transformed it),   *)
(* done (what the scan of the current tick has done with the particle:     *)
(* "no" nothing yet, "skipped" visited only, "yes" processed or decayed;   *)
(* "unknown" before the first tick it is present in) and done0 (done of    *)
(* the previous tick).                                                     *)
(***************************************************************************)
EXTENDS Integers, FiniteSets, Sequences, TLC

VARIABLES
    grid,               \* FallingSand.grid: flat Vec<Particle>, index x + width*y
    grid_width,         \* FallingSand.grid_width
    grid_height,        \* FallingSand.grid_height
    update,             \* FallingSand.update: the global parity flag
    particles_updated,  \* FallingSand.particles_updated
    active_strain,      \* FallingSand.active_strain
    keys_pressed,       \* FallingSand.keys_pressed (strain-selecting keys only)
    left_down,          \* mouse_buttons_pressed contains Button::Left
    cursor,             \* cursor_position / 4 as usize, as <<x, y>>
    pc,                 \* "idle" between calls of update(), "scan" inside the loop
    sx,                 \* loop variable x of the scan
    sy,                 \* loop variable y of the scan
    ticks,              \* number of update() calls started (saturates at TickCap)
    accessed,           \* history: coordinates passed to get/set by the last step
    panicked,           \* history: an index outside the Vec was used (Rust panics)
    spawned,            \* history: cells written by spawn_particle in the last update()
    calls,              \* history: number of direct spawn_particle calls made
    last                \* history: what the last step did (for a scan step also
                        \* the values its gen_range(0, 100) draws returned)

vars == <<grid, grid_width, grid_height, update, particles_updated, active_strain,
          keys_pressed, left_down, cursor, pc, sx, sy, ticks, accessed, panicked,
          spawned, calls, last>>

----------------------------------------------------------------------------
(* Bounds of the exploration *)

GridW == 3
GridH == 3
MaxParticles == 2
MaxInitLifetime == 1
MaxTicks == 2
MaxInputTicks == 2
InputGridW == 2
InputGridH == 3
MaxNeighbours == 2
MaxLifeTicks == 1
SkipGridW == 2
SkipGridH == 2
MaxSkipTicks == 2
MaxGestures == 1
BurnGridW == 2
BurnGridH == 2
MaxBurnParticles == 2
MaxCalls == 2
TickCap == 8

----------------------------------------------------------------------------
(* enum Strain and its per-strain tables *)

Strains == {"Empty", "Sand", "Water", "Wood", "Fire", "Glass", "MoltenGlass"}

\* a density table in which Wood is lighter than every liquid
density_light_wood(s) ==
    CASE s = "Sand" -> 1600
      [] s = "Water" -> 1000
      [] s = "Wood" -> 500
      [] s = "Fire" -> 600
      [] s = "Glass" -> 9999
      [] s = "MoltenGlass" -> 1600
      [] OTHER -> 1000

density(s) ==
    CASE s = "Sand" -> 1600
      [] s = "Water" -> 1000
      [] s = "Wood" -> 9999
      [] s = "Fire" -> 600
      [] s = "Glass" -> 9999
      [] s = "MoltenGlass" -> 1600
      [] OTHER -> 1000

FIRE_LIFETIME_MIN == 60
FIRE_LIFETIME_END == 100
MOLTEN_LIFETIME_MIN == 240
MOLTEN_LIFETIME_END == 480

\* gen_range(lo, hi) draws from lo .. hi-1; the two ends stand for the range.
FireLifetimes == {FIRE_LIFETIME_MIN, FIRE_LIFETIME_END - 1}
MoltenLifetimes == {MOLTEN_LIFETIME_MIN, MOLTEN_LIFETIME_END - 1}

\* base_lifetime: rnd carries the values the two gen_range calls would return.
base_lifetime(s, rnd) ==
    CASE s = "Fire" -> rnd.fire_life
      [] s = "MoltenGlass" -> rnd.molten_life
      [] OTHER -> -1

death_strain(s) == IF s = "MoltenGlass" THEN "Glass" ELSE "Empty"

ignite_chance(s) == IF s = "Wood" THEN 5 ELSE 0

\* Vec<(trigger, chance, result)>
reactable_strains(s) ==
    CASE s = "Sand" -> << <<"Fire", 1, "MoltenGlass">> >>
      [] s = "MoltenGlass" -> << <<"Water", 50, "Glass">> >>
      [] s = "Glass" -> << <<"Fire", 10, "MoltenGlass">> >>
      [] OTHER -> << >>

\* four_adj_particles, in the order of the array
four_adj_particles == << <<-1, 0>>, <<1, 0>>, <<0, -1>>, <<0, 1>> >>

\* the brush of the spawn at the mouse
spawn_points == << <<0, 0>>, <<-1, 0>>, <<1, 0>>, <<0, -1>>, <<0, 1>> >>

----------------------------------------------------------------------------
(* struct Particle *)

\* Particle { strain, lifetime, ..Default::default() } placed at cell index i
NewParticle(s, life, i) ==
    [strain |-> s, update |-> FALSE, lifetime |-> life,
     origin |-> i, strain0 |-> s, life0 |-> life, moves |-> 0, decayed |-> "no",
     done |-> "unknown", done0 |-> "unknown"]

DefaultParticle(i) == NewParticle("Empty", -1, i)

\* the three fields the program has
Fields(p) == <<p.strain, p.update, p.lifetime>>

\* (v as usize) for an isize v: a negative value wraps to the top of the range.
\* TLC's integers are 32 bits wide, so 2^30 stands for 2^64.
UsizeWrap == 1073741824
AsUsize(v) == IF v < 0 THEN v + UsizeWrap ELSE v

----------------------------------------------------------------------------
(* Grid accessors.  m = [g, acc, panic]: the grid, the coordinates handed  *)
(* to get/set so far, and whether an index fell outside the Vec.           *)

index(x, y) == x + grid_width * y

InVec(i) == i >= 0 /\ i < grid_width * grid_height

Touch(m, x, y) ==
    [m EXCEPT !.acc = @ \cup {<<x, y>>},
              !.panic = @ \/ ~InVec(index(x, y))]

get(m, x, y) ==
    IF InVec(index(x, y)) THEN m.g[index(x, y)] ELSE DefaultParticle(0)

set(m, x, y, p) ==
    IF InVec(index(x, y))
    THEN [Touch(m, x, y) EXCEPT !.g[index(x, y)] = p]
    ELSE Touch(m, x, y)

\* set_strain writes the strain only; flag and lifetime of the cell stay
set_strain(m, x, y, s) ==
    IF InVec(index(x, y))
    THEN [Touch(m, x, y) EXCEPT !.g[index(x, y)].strain = s]
    ELSE Touch(m, x, y)

is_particle_empty(m, x, y) == get(m, x, y).strain = "Empty"

\* history only: a particle that lands in another cell has moved once more
Relocated(p, x1, y1, x2, y2) ==
    IF <<x1, y1>> = <<x2, y2>> THEN p ELSE [p EXCEPT !.moves = @ + 1]

swap_copy(m, x1, y1, x2, y2) ==
    LET other == get(m, x2, y2)
    IN  set(Touch(Touch(m, x1, y1), x2, y2), x1, y1, Relocated(other, x1, y1, x2, y2))

swap(m, x1, y1, x2, y2) ==
    LET cur == get(m, x1, y1)
        other == get(m, x2, y2)
        m1 == set(Touch(Touch(m, x1, y1), x2, y2), x1, y1,
                  Relocated(other, x1, y1, x2, y2))
    IN  set(m1, x2, y2, Relocated(cur, x1, y1, x2, y2))

----------------------------------------------------------------------------
(* Movement primitives.  Each returns [m, ret]: the grid after the call    *)
(* and the bool the Rust function returns.                                 *)

Ret(m, b) == [m |-> m, ret |-> b]

apply_gravity_empty_only(m, x, y, val) ==
    IF (y + val <= 0) \/ (y + val > grid_height - 1)
    THEN Ret(m, FALSE)
    ELSE LET ty == AsUsize(y + val)
             m1 == Touch(Touch(m, x, y), x, ty)
         IN  IF is_particle_empty(m, x, ty)
             THEN Ret(swap(m1, x, y, x, ty), TRUE)
             ELSE Ret(m1, FALSE)

apply_gravity_past_bottom(m, x, y, val) ==
    IF (y + val <= 0) \/ (y + val > grid_height)
    THEN Ret(m, FALSE)
    ELSE LET ty == AsUsize(y + val)
             m1 == Touch(Touch(m, x, y), x, ty)
             dx == density(get(m, x, y).strain)
             dy == density(get(m, x, ty).strain)
         IN  IF dx > dy \/ is_particle_empty(m, x, ty)
             THEN Ret(swap(m1, x, y, x, ty), TRUE)
             ELSE Ret(m1, FALSE)

apply_gravity(m, x, y, val) ==
    IF (y + val <= 0) \/ (y + val > grid_height - 1)
    THEN Ret(m, FALSE)
    ELSE LET ty == AsUsize(y + val)
             m1 == Touch(Touch(m, x, y), x, ty)
             dx == density(get(m, x, y).strain)
             dy == density(get(m, x, ty).strain)
         IN  IF dx > dy \/ is_particle_empty(m, x, ty)
             THEN Ret(swap(m1, x, y, x, ty), TRUE)
             ELSE Ret(m1, FALSE)

\* apply_tumble that tries down-right before down-left
apply_tumble_right_first(m, x, y) ==
    LET right_ok == y + 1 < grid_height /\ x + 1 < grid_width
        m1 == IF right_ok THEN Touch(m, x + 1, y + 1) ELSE m
        go_right == right_ok /\ is_particle_empty(m, x + 1, y + 1)
        left_ok == ~go_right /\ y + 1 < grid_height /\ x > 0
        m2 == IF left_ok THEN Touch(m1, x - 1, y + 1) ELSE m1
        go_left == left_ok /\ is_particle_empty(m, x - 1, y + 1)
        tx == IF go_right THEN 1 ELSE IF go_left THEN -1 ELSE 0
        ty == IF go_left \/ go_right THEN 1 ELSE 0
    IN  IF tx # 0 \/ ty # 0
        THEN Ret(swap(m2, x, y, AsUsize(x + tx), AsUsize(y + ty)), TRUE)
        ELSE Ret(m2, FALSE)

apply_tumble(m, x, y) ==
    LET left_ok == y + 1 < grid_height /\ x > 0
        m1 == IF left_ok THEN Touch(m, x - 1, y + 1) ELSE m
        go_left == left_ok /\ is_particle_empty(m, x - 1, y + 1)
        right_ok == ~go_left /\ y + 1 < grid_height /\ x + 1 < grid_width
        m2 == IF right_ok THEN Touch(m1, x + 1, y + 1) ELSE m1
        go_right == right_ok /\ is_particle_empty(m, x + 1, y + 1)
        tx == IF go_left THEN -1 ELSE IF go_right THEN 1 ELSE 0
        ty == IF go_left \/ go_right THEN 1 ELSE 0
    IN  IF tx # 0 \/ ty # 0
        THEN Ret(swap(m2, x, y, AsUsize(x + tx), AsUsize(y + ty)), TRUE)
        ELSE Ret(m2, FALSE)

apply_spread_into_occupied(m, x, y, coin) ==
    LET dir == IF coin THEN -1 ELSE 1
        in_range == x > 0 /\ x + dir < grid_width
        m1 == IF in_range THEN Touch(m, AsUsize(x + dir), y) ELSE m
        trans_x == IF in_range /\ ~is_particle_empty(m, AsUsize(x + dir), y)
                   THEN dir ELSE 0
    IN  IF trans_x # 0
        THEN Ret(swap(m1, x, y, AsUsize(x + trans_x), y), TRUE)
        ELSE Ret(m1, FALSE)

\* coin is the value of random(): true picks dir = -1
apply_spread(m, x, y, coin) ==
    LET dir == IF coin THEN -1 ELSE 1
        in_range == x > 0 /\ x + dir < grid_width
        m1 == IF in_range THEN Touch(m, AsUsize(x + dir), y) ELSE m
        trans_x == IF in_range /\ is_particle_empty(m, AsUsize(x + dir), y)
                   THEN dir ELSE 0
    IN  IF trans_x # 0
        THEN Ret(swap(m1, x, y, AsUsize(x + trans_x), y), TRUE)
        ELSE Ret(m1, FALSE)

spawn_particle_off_by_one(m, x, y, p) ==
    IF x <= grid_width /\ y <= grid_height THEN set(m, x, y, p) ELSE m

spawn_particle(m, x, y, p) ==
    IF x < grid_width /\ y < grid_height THEN set(m, x, y, p) ELSE m

\* the end of the range of set_row: for x in 0..128
SET_ROW_END == 128

\* set_row, from loop value x on; an index outside the Vec panics and ends the loop
RECURSIVE set_row_from(_, _, _, _)
set_row_from(m, strain, row, x) ==
    IF x >= SET_ROW_END \/ m.panic THEN m
    ELSE set_row_from(set_strain(m, x, row, strain), strain, row, x + 1)

set_row(m, strain, row) == set_row_from(m, strain, row, 0)

----------------------------------------------------------------------------
(* Game::update, the body of the scan loop.  rnd holds the values the      *)
(* random calls of one loop iteration return: react[i] / ignite[i] the     *)
(* gen_range(0, 100) draw made for neighbour i, fire_life / molten_life    *)
(* the base_lifetime draws, rise / spread_try / thick / dir the random()   *)
(* booleans.                                                               *)

NeighbourX(x, i) == AsUsize(x + four_adj_particles[i][1])
NeighbourY(y, i) == AsUsize(y + four_adj_particles[i][2])

NeighbourInGrid(x, y, i) ==
    NeighbourX(x, i) < grid_width /\ NeighbourY(y, i) < grid_height

\* the inner loop over four_adj_particles for one table entry r, from neighbour i on
RECURSIVE react_neighbours(_, _, _, _, _, _, _)
react_neighbours(m, p, x, y, r, i, rnd) ==
    IF i > 4 THEN [m |-> m, p |-> p]
    ELSE IF NeighbourInGrid(x, y, i)
         THEN LET nx == NeighbourX(x, i)
                  ny == NeighbourY(y, i)
                  m1 == Touch(m, nx, ny)
              IN  IF get(m, nx, ny).strain = r[1] /\ rnd.react[i] <= r[2]
                  THEN [m |-> m1,
                        p |-> [p EXCEPT !.strain = r[3],
                                        !.lifetime = base_lifetime(r[3], rnd)]]
                  ELSE react_neighbours(m1, p, x, y, r, i + 1, rnd)
         ELSE react_neighbours(m, p, x, y, r, i + 1, rnd)

\* the outer loop over the reaction table of the strain the particle had
RECURSIVE attempt_reaction(_, _, _, _, _, _, _)
attempt_reaction(m, p, x, y, table, k, rnd) ==
    IF k > Len(table) THEN [m |-> m, p |-> p]
    ELSE LET one == react_neighbours(m, p, x, y, table[k], 1, rnd)
         IN  attempt_reaction(one.m, one.p, x, y, table, k + 1, rnd)

\* "Attempt to ignite nearby particles", from neighbour i on
RECURSIVE ignite_neighbours(_, _, _, _, _)
ignite_neighbours(m, x, y, i, rnd) ==
    IF i > 4 THEN m
    ELSE IF NeighbourInGrid(x, y, i)
         THEN LET nx == NeighbourX(x, i)
                  ny == NeighbourY(y, i)
                  q == get(m, nx, ny)
                  m1 == Touch(m, nx, ny)
              IN  IF q.strain # "Empty" /\ ignite_chance(q.strain) > 0
                     /\ rnd.ignite[i] <= ignite_chance(q.strain)
                  THEN set(m1, nx, ny,
                           [q EXCEPT !.strain = "Fire",
                                     !.lifetime = base_lifetime("Fire", rnd)])
                  ELSE ignite_neighbours(m1, x, y, i + 1, rnd)
         ELSE ignite_neighbours(m, x, y, i + 1, rnd)

\* Sand that also spreads like a liquid, to the side its flag selects
behave_sand_spreading(m, x, y, rnd) ==
    LET g == apply_gravity(m, x, y, 1)
    IN  IF g.ret THEN g.m
        ELSE LET t == apply_tumble(g.m, x, y)
             IN  IF t.ret THEN t.m
                 ELSE apply_spread(t.m, x, y, m.g[index(x, y)].update).m

\* Strain::Sand =>
behave_sand(m, x, y, rnd) ==
    LET g == apply_gravity(m, x, y, 1)
    IN  IF g.ret THEN g.m ELSE apply_tumble(g.m, x, y).m

\* Strain::Water =>
behave_water(m, x, y, rnd) ==
    LET g == apply_gravity(m, x, y, 1)
    IN  IF g.ret THEN g.m
        ELSE LET t == apply_tumble(g.m, x, y)
             IN  IF t.ret THEN t.m ELSE apply_spread(t.m, x, y, rnd.dir).m

\* Strain::Fire =>
behave_fire(m, x, y, rnd) ==
    LET m1 == IF rnd.rise THEN apply_gravity(m, x, y, -1).m ELSE m
        m2 == IF rnd.spread_try THEN apply_spread(m1, x, y, rnd.dir).m ELSE m1
    IN  ignite_neighbours(m2, x, y, 1, rnd)

\* Strain::MoltenGlass =>
behave_molten_glass(m, x, y, rnd) ==
    LET g == apply_gravity(m, x, y, 1)
    IN  IF g.ret THEN g.m
        ELSE IF rnd.thick
             THEN LET t == apply_tumble(g.m, x, y)
                  IN  IF t.ret THEN t.m ELSE apply_spread(t.m, x, y, rnd.dir).m
             ELSE g.m

\* match p.strain { ... }
behave(m, s, x, y, rnd) ==
    CASE s = "Sand" -> behave_sand(m, x, y, rnd)
      [] s = "Water" -> behave_water(m, x, y, rnd)
      [] s = "Fire" -> behave_fire(m, x, y, rnd)
      [] s = "MoltenGlass" -> behave_molten_glass(m, x, y, rnd)
      [] OTHER -> m

\* a dead-check that changes the strain and leaves the lifetime at 0
decay_cell_keeps_lifetime(m, p, x, y, rnd) ==
    set(m, x, y, [p EXCEPT !.strain = death_strain(p.strain)])

\* "check if dead": the first arm of the if
decay_cell(m, p, x, y, rnd) ==
    LET s == death_strain(p.strain)
    IN  set(m, x, y,
            [p EXCEPT !.strain = s,
                      !.lifetime = base_lifetime(s, rnd),
                      !.done = "yes",
                      !.decayed = IF p.moves > 0 \/ p.lifetime # p.life0
                                  THEN "after_update" ELSE "untouched"])

\* the else-if arm without the decrement of the lifetime
update_cell_no_countdown(m, p, x, y, rnd) ==
    LET p1 == [p EXCEPT !.update = ~p.update, !.done = "yes"]
        r == attempt_reaction(m, p1, x, y, reactable_strains(p1.strain), 1, rnd)
        m1 == set(r.m, x, y, r.p)
    IN  behave(m1, r.p.strain, x, y, rnd)

\* the else-if arm: flag flip, lifetime, reaction, save, behaviour
update_cell(m, p, x, y, rnd) ==
    LET p1 == [p EXCEPT !.update = ~p.update, !.done = "yes"]
        p2 == IF p1.lifetime > 0 THEN [p1 EXCEPT !.lifetime = @ - 1] ELSE p1
        r == attempt_reaction(m, p2, x, y, reactable_strains(p2.strain), 1, rnd)
        m1 == set(r.m, x, y, r.p)
    IN  behave(m1, r.p.strain, x, y, rnd)

\* neither arm: the program does nothing; history only, the visit is noted
skip_cell(m, p, x, y) ==
    IF p.done = "no" THEN [m EXCEPT !.g[index(x, y)].done = "skipped"] ELSE m

counts_only_movers(m, p, b) ==
    b = "update" /\ \E i \in DOMAIN m.g : m.g[i].origin = p.origin /\ m.g[i].moves > p.moves

\* whether the iteration executes particles_updated += 1
counts(m, p, b) == b = "update"

\* an eligibility test that compares the flag with false, not with the parity
Branch_ignores_parity(p) ==
    IF p.lifetime = 0 THEN "decay"
    ELSE IF p.update = FALSE /\ p.strain # "Empty" THEN "update"
    ELSE "skip"

Branch(p) ==
    IF p.lifetime = 0 THEN "decay"
    ELSE IF p.update = update /\ p.strain # "Empty" THEN "update"
    ELSE "skip"

\* one iteration of the loop body at (x, y), on grid g
process_cell(g, x, y, rnd) ==
    LET m0 == Touch([g |-> g, acc |-> {}, panic |-> FALSE], x, y)
        p == get(m0, x, y)
        b == Branch(p)
        m == CASE b = "decay" -> decay_cell(m0, p, x, y, rnd)
               [] b = "update" -> update_cell(m0, p, x, y, rnd)
               [] OTHER -> skip_cell(m0, p, x, y)
    IN  [m |-> m, branch |-> b, strain |-> p.strain,
         counted |-> counts(m, p, b)]

----------------------------------------------------------------------------
(* The random values one loop iteration can consume.  A draw that the      *)
(* iteration cannot reach is fixed, so that it is not enumerated.          *)

\* values of gen_range(0, 100) around the thresholds 1, 5, 10 and 50
DrawSamples == {0, 1, 2, 5, 6, 10, 11, 50, 51, 99}

Cells == 0 .. (grid_width * grid_height - 1)

Cur == grid[index(sx, sy)]

WillUpdate == Branch(Cur) = "update"

Table == reactable_strains(Cur.strain)

ReactSlots ==
    IF WillUpdate /\ Len(Table) > 0
    THEN {i \in 1..4 : NeighbourInGrid(sx, sy, i)
                       /\ grid[index(NeighbourX(sx, i), NeighbourY(sy, i))].strain
                              = Table[1][1]}
    ELSE {}

IgniteSlots ==
    IF WillUpdate /\ Cur.strain = "Fire"
    THEN {i \in 1..4 : NeighbourInGrid(sx, sy, i)
                       /\ ignite_chance(
                            grid[index(NeighbourX(sx, i), NeighbourY(sy, i))].strain) > 0}
    ELSE {}

\* the strains the match after the reaction can see
MatchStrains ==
    IF ~WillUpdate THEN {}
    ELSE {Cur.strain} \cup (IF ReactSlots # {} THEN {Table[1][3]} ELSE {})

DrawVectors(slots) ==
    {[i \in 1..4 |-> IF i \in slots THEN f[i] ELSE 0] : f \in [slots -> DrawSamples]}

Coin(needed) == IF needed THEN BOOLEAN ELSE {FALSE}

Randoms ==
    [react : DrawVectors(ReactSlots),
     ignite : DrawVectors(IgniteSlots),
     fire_life : IF IgniteSlots # {} THEN FireLifetimes ELSE {FIRE_LIFETIME_MIN},
     molten_life : IF "MoltenGlass" \in MatchStrains /\ Cur.strain # "MoltenGlass"
                   THEN MoltenLifetimes ELSE {MOLTEN_LIFETIME_MIN},
     rise : Coin("Fire" \in MatchStrains),
     spread_try : Coin("Fire" \in MatchStrains),
     thick : Coin("MoltenGlass" \in MatchStrains),
     dir : Coin(MatchStrains \cap {"Water", "Fire", "MoltenGlass"} # {})]

----------------------------------------------------------------------------
(* Actions *)

\* the scan: for y in (0..grid_height).rev() { for x in 0..grid_width { ... } },
\* and self.update = !self.update after the last cell
ScanCell ==
    /\ pc = "scan"
    /\ \E rnd \in Randoms :
       \E res \in {process_cell(grid, sx, sy, rnd)} :
         LET more == ~(sx = grid_width - 1 /\ sy = 0)
         IN  /\ grid' = res.m.g
             /\ accessed' = res.m.acc
             /\ panicked' = res.m.panic
             /\ particles_updated' = IF res.counted THEN particles_updated + 1
                                     ELSE particles_updated
             /\ last' = [op |-> res.branch, x |-> sx, y |-> sy, strain |-> res.strain,
                         react |-> rnd.react, ignite |-> rnd.ignite]
             /\ IF res.m.panic
                THEN pc' = "panic" /\ UNCHANGED <<sx, sy, update>>
                ELSE IF more
                THEN /\ pc' = "scan"
                     /\ sx' = IF sx = grid_width - 1 THEN 0 ELSE sx + 1
                     /\ sy' = IF sx = grid_width - 1 THEN sy - 1 ELSE sy
                     /\ UNCHANGED update
                ELSE /\ pc' = "idle"
                     /\ update' = ~update
                     /\ UNCHANGED <<sx, sy>>
    /\ UNCHANGED <<grid_width, grid_height, active_strain, keys_pressed, left_down,
                   cursor, ticks, spawned, calls>>

Keys == {"E", "Key1", "Key2", "Key3", "Key4"}

KeyStrain(k) ==
    CASE k = "E" -> "Empty"
      [] k = "Key1" -> "Sand"
      [] k = "Key2" -> "Water"
      [] k = "Key3" -> "Wood"
      [] k = "Key4" -> "Fire"
      [] OTHER -> "Sand"

\* "Spawn particle at mouse": the loop over the five brush points, from point i on
RECURSIVE spawn_at_mouse(_, _, _, _)
spawn_at_mouse(m, strain, lives, i) ==
    IF i > Len(spawn_points) THEN m
    ELSE LET xp == AsUsize(cursor[1] + spawn_points[i][1])
             yp == AsUsize(cursor[2] + spawn_points[i][2])
             in_grid == xp < grid_width /\ yp < grid_height
             m1 == IF in_grid THEN Touch(m, xp, yp) ELSE m
         IN  IF in_grid /\ (is_particle_empty(m, xp, yp) \/ strain = "Empty")
             THEN spawn_at_mouse(
                      spawn_particle(m1, xp, yp,
                          NewParticle(strain,
                                      base_lifetime(strain,
                                          [fire_life |-> lives[i],
                                           molten_life |-> MOLTEN_LIFETIME_MIN]),
                                      index(xp, yp))),
                      strain, lives, i + 1)
             ELSE spawn_at_mouse(m1, strain, lives, i + 1)

\* history only: the cells the brush writes
SpawnTargets(strain) ==
    {index(AsUsize(cursor[1] + spawn_points[i][1]),
           AsUsize(cursor[2] + spawn_points[i][2])) :
       i \in {j \in 1..5 :
                LET xp == AsUsize(cursor[1] + spawn_points[j][1])
                    yp == AsUsize(cursor[2] + spawn_points[j][2])
                IN  /\ xp < grid_width
                    /\ yp < grid_height
                    /\ (grid[index(xp, yp)].strain = "Empty" \/ strain = "Empty")}}

\* history only: a new tick starts, every cell's particle is at its origin
StartOfTick(g) ==
    [i \in DOMAIN g |-> [g[i] EXCEPT !.origin = i, !.strain0 = g[i].strain,
                                     !.life0 = g[i].lifetime, !.moves = 0,
                                     !.decayed = "no", !.done0 = g[i].done,
                                     !.done = "no"]]

\* base_lifetime is drawn once per brush point: all low, all high, or mixed
BrushLifetimes ==
    {[i \in 1..5 |-> FIRE_LIFETIME_MIN],
     [i \in 1..5 |-> FIRE_LIFETIME_END - 1],
     [i \in 1..5 |-> IF i % 2 = 1 THEN FIRE_LIFETIME_MIN ELSE FIRE_LIFETIME_END - 1]}

\* update() up to the scan loop: key handling, spawn at the mouse, counter reset
UpdateBegin ==
    /\ pc = "idle"
    /\ \E strain \in (IF keys_pressed = {} THEN {active_strain}
                      ELSE {KeyStrain(k) : k \in keys_pressed}) :
       \E lives \in (IF left_down /\ strain = "Fire"
                     THEN BrushLifetimes ELSE {[i \in 1..5 |-> FIRE_LIFETIME_MIN]}) :
       \E m \in {IF left_down
                 THEN spawn_at_mouse([g |-> grid, acc |-> {}, panic |-> FALSE],
                                     strain, lives, 1)
                 ELSE [g |-> grid, acc |-> {}, panic |-> FALSE]} :
             /\ active_strain' = strain
             /\ grid' = StartOfTick(m.g)
             /\ accessed' = m.acc
             /\ panicked' = m.panic
             /\ spawned' = IF left_down THEN SpawnTargets(strain) ELSE {}
             /\ pc' = IF m.panic THEN "panic" ELSE "scan"
    /\ particles_updated' = 0
    /\ sx' = 0
    /\ sy' = grid_height - 1
    /\ ticks' = IF ticks < TickCap THEN ticks + 1 ELSE ticks
    /\ last' = [op |-> "begin", x |-> cursor[1], y |-> cursor[2], strain |-> active_strain']
    /\ UNCHANGED <<grid_width, grid_height, update, keys_pressed, left_down, cursor,
                   calls>>

\* Game::interact, called once before each update(): the input state update()
\* will read.  At most one of the
\* strain keys is held; the 512x512 window shows 128x128 cells of 4 pixels,
\* so the cursor is over a cell of the grid.
Interact ==
    /\ pc = "idle"
    /\ last.op # "interact"
    /\ \E down \in BOOLEAN, k \in SUBSET Keys :
         /\ Cardinality(k) <= 1
         /\ left_down' = down
         /\ keys_pressed' = k
         /\ IF down
            THEN \E cx \in 0..(grid_width - 1), cy \in 0..(grid_height - 1) :
                     cursor' = <<cx, cy>>
            ELSE cursor' = cursor
    /\ last' = [op |-> "interact", x |-> cursor'[1], y |-> cursor'[2],
                strain |-> active_strain]
    /\ UNCHANGED <<grid, grid_width, grid_height, update, particles_updated,
                   active_strain, pc, sx, sy, ticks, accessed, panicked, spawned, calls>>

\* a direct call spawn_particle(x, y, Particle { strain, lifetime, ..default })
\* with any usize coordinates, between two calls of update()
SpawnCall ==
    /\ pc = "idle"
    /\ calls < MaxCalls
    /\ \E x \in (0..grid_width) \cup {UsizeWrap - 1},
          y \in (0..grid_height) \cup {UsizeWrap - 1},
          strain \in Strains :
       \E fl \in {FIRE_LIFETIME_MIN}, ml \in {MOLTEN_LIFETIME_MIN} :
       \E m \in {spawn_particle([g |-> grid, acc |-> {}, panic |-> FALSE], x, y,
                     NewParticle(strain,
                         base_lifetime(strain, [fire_life |-> fl, molten_life |-> ml]),
                         0))} :
             /\ grid' = m.g
             /\ accessed' = m.acc
             /\ panicked' = m.panic
             /\ pc' = IF m.panic THEN "panic" ELSE "idle"
             /\ last' = [op |-> "spawn_particle", x |-> x, y |-> y, strain |-> strain]
    /\ calls' = calls + 1
    /\ UNCHANGED <<grid_width, grid_height, update, particles_updated, active_strain,
                   keys_pressed, left_down, cursor, sx, sy, ticks, spawned>>

\* a direct call set_row(strain, row) with row < grid_height, between two calls
\* of update()
SetRowCall ==
    /\ pc = "idle"
    /\ calls < MaxCalls
    /\ \E strain \in Strains, row \in 0..(grid_height - 1) :
       \E m \in {set_row([g |-> grid, acc |-> {}, panic |-> FALSE], strain, row)} :
             /\ grid' = m.g
             /\ accessed' = m.acc
             /\ panicked' = m.panic
             /\ pc' = IF m.panic THEN "panic" ELSE "idle"
             /\ last' = [op |-> "set_row", x |-> 0, y |-> row, strain |-> strain]
    /\ calls' = calls + 1
    /\ UNCHANGED <<grid_width, grid_height, update, particles_updated, active_strain,
                   keys_pressed, left_down, cursor, sx, sy, ticks, spawned>>

\* The strains for which the dispatch of update() calls each primitive
GravityMovers(val) == IF val = 1 THEN {"Sand", "Water", "MoltenGlass"} ELSE {"Fire"}
TumbleMovers == {"Sand", "Water", "MoltenGlass"}
SpreadMovers == {"Water", "Fire", "MoltenGlass"}

\* what a call of a primitive leaves behind: the grid and the returned bool
PrimitiveDone(r, op, x, y, val) ==
    /\ grid' = r.m.g
    /\ accessed' = r.m.acc
    /\ panicked' = r.m.panic
    /\ pc' = IF r.m.panic THEN "panic" ELSE "idle"
    /\ last' = [op |-> op, x |-> x, y |-> y, strain |-> grid[index(x, y)].strain,
                val |-> val, ret |-> r.ret]
    /\ calls' = calls + 1
    /\ UNCHANGED <<grid_width, grid_height, update, particles_updated, active_strain,
                   keys_pressed, left_down, cursor, sx, sy, ticks, spawned>>

EmptyM == [g |-> grid, acc |-> {}, panic |-> FALSE]

\* self.apply_gravity(x, y, 1) for a falling strain, self.apply_gravity(x, y, -1)
\* for Fire, on the cell of the particle
GravityCall ==
    /\ pc = "idle"
    /\ calls < MaxCalls
    /\ \E x \in 0..(grid_width - 1), y \in 0..(grid_height - 1), val \in {1, -1} :
         /\ grid[index(x, y)].strain \in GravityMovers(val)
         /\ \E r \in {apply_gravity(EmptyM, x, y, val)} :
                PrimitiveDone(r, "apply_gravity", x, y, val)

\* self.apply_tumble(x, y) on the cell of a falling particle
TumbleCall ==
    /\ pc = "idle"
    /\ calls < MaxCalls
    /\ \E x \in 0..(grid_width - 1), y \in 0..(grid_height - 1) :
         /\ grid[index(x, y)].strain \in TumbleMovers
         /\ \E r \in {apply_tumble(EmptyM, x, y)} :
                PrimitiveDone(r, "apply_tumble", x, y, 0)

\* self.apply_spread(x, y) on the cell of a spreading particle; val is the
\* direction that random() selected
SpreadCall ==
    /\ pc = "idle"
    /\ calls < MaxCalls
    /\ \E x \in 0..(grid_width - 1), y \in 0..(grid_height - 1), coin \in BOOLEAN :
         /\ grid[index(x, y)].strain \in SpreadMovers
         /\ \E r \in {apply_spread(EmptyM, x, y, coin)} :
                PrimitiveDone(r, "apply_spread", x, y, IF coin THEN -1 ELSE 1)

----------------------------------------------------------------------------
(* Initial states *)

\* what FallingSand::new and Inputs::new set, besides the grid
InitIdle ==
    /\ particles_updated = 0
    /\ active_strain = "Sand"
    /\ keys_pressed = {}
    /\ left_down = FALSE
    /\ cursor = <<0, 0>>
    /\ pc = "idle"
    /\ sx = 0
    /\ sy = 0
    /\ ticks = 0
    /\ accessed = {}
    /\ panicked = FALSE
    /\ spawned = {}
    /\ calls = 0
    /\ last = [op |-> "init", x |-> 0, y |-> 0, strain |-> "Empty"]

\* FallingSand::new(batch, font, w, h)
New(w, h) ==
    /\ grid_width = w
    /\ grid_height = h
    /\ grid = [i \in 0..(w * h - 1) |-> DefaultParticle(i)]
    /\ update = FALSE
    /\ InitIdle

InitNew == New(GridW, GridH)

InitInput == New(InputGridW, InputGridH)

\* A particle as update() leaves it between two ticks: its flag equals the
\* parity u of the next tick, except Glass that decayed from MoltenGlass in
\* the last tick (the dead-check does not flip the flag).
Living(s, u, life, i) == [NewParticle(s, life, i) EXCEPT !.update = u]

RestingParticles(u, i) ==
    {Living(s, u, -1, i) : s \in {"Sand", "Water", "Wood"}}
    \cup {Living(s, u, l, i) : s \in {"Fire", "MoltenGlass"}, l \in 0..MaxInitLifetime}
    \cup {Living("Glass", f, -1, i) : f \in BOOLEAN}

\* between two ticks, with at most MaxParticles particles on the grid
Init ==
    /\ grid_width = GridW
    /\ grid_height = GridH
    /\ update \in BOOLEAN
    /\ \E S \in {T \in SUBSET (0..(GridW * GridH - 1)) : Cardinality(T) <= MaxParticles} :
         grid \in {[i \in 0..(GridW * GridH - 1) |->
                        IF i \in S THEN f[i] ELSE DefaultParticle(i)] :
                     f \in {h \in [S -> UNION {RestingParticles(update, i) : i \in S}] :
                              \A i \in S : h[i].origin = i}}
    /\ InitIdle

Next ==
    \/ ticks < MaxTicks /\ UpdateBegin
    \/ ScanCell

Spec == Init /\ [][Next]_vars

\* the user does nothing: update() is called tick after tick, without limit
NextIdle ==
    \/ UpdateBegin
    \/ ScanCell

\* A flat, full-width floor of Sand in row f and one Sand particle above it
InitSettle ==
    /\ grid_width = GridW
    /\ grid_height = GridH
    /\ update \in BOOLEAN
    /\ \E f \in 1..(GridH - 1), x \in 0..(GridW - 1) :
       \E y \in 0..(f - 1) :
         grid = [i \in 0..(GridW * GridH - 1) |->
                    IF i \div GridW = f \/ i = x + GridW * y
                    THEN Living("Sand", update, -1, i)
                    ELSE DefaultParticle(i)]
    /\ InitIdle

\* coffee calls update() at TICKS_PER_SECOND for as long as the program runs
SpecSettle == InitSettle /\ [][NextIdle]_vars /\ WF_vars(NextIdle)

\* The 8x8 scenario: row 7 is Wood, one Water particle at (4,0)
InitScenario ==
    /\ grid_width = 8
    /\ grid_height = 8
    /\ update \in BOOLEAN
    /\ grid = [i \in 0..63 |->
                 IF i \div 8 = 7 THEN Living("Wood", update, -1, i)
                 ELSE IF i = 4 THEN Living("Water", update, -1, i)
                 ELSE DefaultParticle(i)]
    /\ InitIdle

SpecScenario == InitScenario /\ [][NextIdle]_vars

NextInput ==
    \/ ticks < MaxInputTicks /\ Interact
    \/ ticks < MaxInputTicks /\ UpdateBegin
    \/ ScanCell

SpecInput == InitInput /\ [][NextInput]_vars

NextSpawn ==
    \/ SpawnCall
    \/ ticks < MaxTicks /\ UpdateBegin
    \/ ScanCell

SpecSpawn == InitNew /\ [][NextSpawn]_vars

\* grids of the width load() uses and of the model's width, of 1 to GridH rows
RowWidths == {GridW, SET_ROW_END}

InitRow == \E w \in RowWidths, h \in 1..GridH : New(w, h)

NextRow == SetRowCall

SpecRow == InitRow /\ [][NextRow]_vars

\* the movement primitives, called on the grids update() can leave
NextPrimitives ==
    \/ GravityCall
    \/ TumbleCall
    \/ SpreadCall

SpecPrimitives == Init /\ [][NextPrimitives]_vars

\* A particle in cell (1,1) and particles in at most MaxNeighbours of its four
\* axis-aligned neighbour cells, between two ticks
CentreCell == 1 + GridW
AdjCells == {CentreCell - 1, CentreCell + 1, CentreCell - GridW, CentreCell + GridW}

InitReact ==
    /\ grid_width = GridW
    /\ grid_height = GridH
    /\ update \in BOOLEAN
    /\ \E N \in {T \in SUBSET AdjCells : Cardinality(T) <= MaxNeighbours} :
         grid \in {[i \in 0..(GridW * GridH - 1) |->
                        IF i \in N \cup {CentreCell} THEN f[i] ELSE DefaultParticle(i)] :
                     f \in {h \in [N \cup {CentreCell} ->
                                     UNION {RestingParticles(update, i) :
                                              i \in N \cup {CentreCell}}] :
                              \A i \in N \cup {CentreCell} : h[i].origin = i}}
    /\ InitIdle

SpecReact == InitReact /\ [][Next]_vars

\* the user at work on a grid that holds at most one particle, between two ticks
InitLife ==
    /\ grid_width = InputGridW
    /\ grid_height = InputGridH
    /\ update \in BOOLEAN
    /\ \E S \in {T \in SUBSET (0..(InputGridW * InputGridH - 1)) : Cardinality(T) <= 1} :
         grid \in {[i \in 0..(InputGridW * InputGridH - 1) |->
                        IF i \in S THEN f[i] ELSE DefaultParticle(i)] :
                     f \in {h \in [S -> UNION {RestingParticles(update, i) : i \in S}] :
                              \A i \in S : h[i].origin = i}}
    /\ InitIdle

NextLife ==
    \/ ticks < MaxLifeTicks /\ Interact
    \/ ticks < MaxLifeTicks /\ UpdateBegin
    \/ ScanCell

SpecLife == InitLife /\ [][NextLife]_vars

\* a grid of at most one particle, between two ticks; the user makes one
\* gesture (moves the mouse, presses or releases button and keys) and holds it
\* while update() is called tick after tick
InitSkip ==
    /\ grid_width = SkipGridW
    /\ grid_height = SkipGridH
    /\ update \in BOOLEAN
    /\ \E S \in {T \in SUBSET (0..(SkipGridW * SkipGridH - 1)) : Cardinality(T) <= 1} :
         grid \in {[i \in 0..(SkipGridW * SkipGridH - 1) |->
                        IF i \in S THEN f[i] ELSE DefaultParticle(i)] :
                     f \in {h \in [S -> UNION {RestingParticles(update, i) : i \in S}] :
                              \A i \in S : h[i].origin = i}}
    /\ InitIdle

NextSkip ==
    \/ ticks < MaxGestures /\ Interact
    \/ ticks < MaxSkipTicks /\ UpdateBegin
    \/ ScanCell

SpecSkip == InitSkip /\ [][NextSkip]_vars

\* a grid of at most MaxBurnParticles particles, between two ticks; the user
\* does nothing and update() is called tick after tick
InitBurn ==
    /\ grid_width = BurnGridW
    /\ grid_height = BurnGridH
    /\ update \in BOOLEAN
    /\ \E S \in {T \in SUBSET (0..(BurnGridW * BurnGridH - 1)) :
                    Cardinality(T) <= MaxBurnParticles} :
         grid \in {[i \in 0..(BurnGridW * BurnGridH - 1) |->
                        IF i \in S THEN f[i] ELSE DefaultParticle(i)] :
                     f \in {h \in [S -> UNION {RestingParticles(update, i) : i \in S}] :
                              \A i \in S : h[i].origin = i}}
    /\ InitIdle

SpecBurn == InitBurn /\ [][NextIdle]_vars /\ WF_vars(NextIdle)

----------------------------------------------------------------------------
(* Properties *)

CellX(i) == i % grid_width
CellY(i) == i \div grid_width

\* the cell that now holds the particle (or Empty slot) that started the tick in cell o
PosOf(o) == CHOOSE i \in Cells : grid[i].origin = o

Materials == [i \in Cells |-> grid[i].strain]

CountOf(s) == Cardinality({i \in Cells : grid[i].strain = s})

\* a change of strain the code makes in place: decay of a particle whose lifetime
\* is 0, a reaction of its table, or ignition of an ignitable strain
InPlaceChange(p, s) ==
    \/ p.lifetime = 0 /\ s = death_strain(p.strain)
    \/ \E k \in 1..Len(reactable_strains(p.strain)) : s = reactable_strains(p.strain)[k][3]
    \/ ignite_chance(p.strain) > 0 /\ s = "Fire"

\* C1: Conservation.  In every step of the scan each cell's content of the
\* start of the tick is still in exactly one cell (no movement removes or
\* duplicates a particle), a particle's strain changes only by decay, reaction
\* or ignition in place, Empty never turns into a particle, and without Fire on
\* the grid the number of Sand cells is unchanged.
C1_Conservation ==
    [][pc = "scan" =>
         /\ \A o \in Cells : Cardinality({i \in Cells : grid'[i].origin = o}) = 1
         /\ \A o \in Cells :
              LET before == grid[PosOf(o)]
                  after == grid'[CHOOSE i \in Cells : grid'[i].origin = o]
              IN  \/ after.strain = before.strain
                  \/ before.strain # "Empty" /\ InPlaceChange(before, after.strain)
         /\ (CountOf("Fire") = 0 => CountOf("Sand")' = CountOf("Sand"))]_vars

\* C1 witness: in one tick a Sand particle has moved and another particle has
\* changed strain in place
C1_Witness ==
    /\ pc = "idle"
    /\ \E i, j \in Cells :
         /\ grid[i].strain = "Sand" /\ grid[i].moves >= 1
         /\ grid[j].strain0 # "Empty" /\ grid[j].strain # grid[j].strain0

\* C2: No double-update.  No particle changes cell more than once in a tick.
C2_NoDoubleMove ==
    \A i \in Cells : grid[i].strain # "Empty" => grid[i].moves <= 1

\* C3 as stated: Density ordering over a whole tick.  If at the start of the
\* tick (x,y) holds H and (x,y+1) holds L, both non-Empty, density(H) >
\* density(L), then at the end of the tick H is strictly below L in that column.
C3_DensityOrderingPerTick ==
    (pc = "idle" /\ ticks > 0) =>
        \A o \in Cells :
            (o + grid_width \in Cells
             /\ grid[PosOf(o)].strain0 # "Empty"
             /\ grid[PosOf(o + grid_width)].strain0 # "Empty"
             /\ density(grid[PosOf(o)].strain0)
                  > density(grid[PosOf(o + grid_width)].strain0))
            => /\ CellX(PosOf(o)) = CellX(PosOf(o + grid_width))
               /\ CellY(PosOf(o)) > CellY(PosOf(o + grid_width))

Fallers == {"Sand", "Water", "MoltenGlass"}

\* C3 amended: Density swap at processing time.  When the scan processes an
\* eligible particle (flag equal to the parity, lifetime not 0) that is, after
\* its reaction attempt, of a falling strain H (Sand, Water, MoltenGlass) and
\* the cell directly below holds a non-Empty L with density(H) > density(L),
\* that step swaps the two: H ends directly below L.
C3_DensitySwapWhenProcessed ==
    [][(/\ pc = "scan"
        /\ WillUpdate
        /\ sy + 1 < grid_height
        /\ grid[index(sx, sy + 1)].strain # "Empty"
        /\ LET h == grid'[CHOOSE i \in Cells : grid'[i].origin = Cur.origin]
           IN  /\ h.strain \in Fallers
               /\ density(h.strain) > density(grid[index(sx, sy + 1)].strain))
       => /\ grid'[index(sx, sy + 1)].origin = Cur.origin
          /\ grid'[index(sx, sy)].origin = grid[index(sx, sy + 1)].origin
          /\ grid'[index(sx, sy)].strain = grid[index(sx, sy + 1)].strain]_vars

\* C3 witness: the last step processed Sand above Water and the two have swapped
C3_Witness ==
    /\ last.op = "update"
    /\ last.strain = "Sand"
    /\ last.y + 1 < grid_height
    /\ grid[index(last.x, last.y)].strain = "Water"
    /\ grid[index(last.x, last.y)].origin = index(last.x, last.y + 1)
    /\ grid[index(last.x, last.y + 1)].strain = "Sand"
    /\ grid[index(last.x, last.y + 1)].origin = index(last.x, last.y)

\* C4: Decay transition.  The dead-check turns a particle of lifetime 0 into
\* its death strain with that strain's base lifetime, in place, and in that
\* tick the particle has not been moved, has not reacted and has not had its
\* lifetime decremented.
C4_DecayTransition ==
    last.op = "decay" =>
        /\ grid[index(last.x, last.y)].strain = death_strain(last.strain)
        /\ grid[index(last.x, last.y)].lifetime = -1
        /\ grid[index(last.x, last.y)].decayed = "untouched"

\* C5: Settling.  One Sand particle above a flat, full-width floor of Sand:
\* eventually no step changes the strain held by any cell any more.
C5_Settles == <>[][Materials' = Materials]_vars

\* C5 witness: after a whole tick in which nothing moved, the particle lies on
\* the floor, which lies on the bottom row
C5_Witness ==
    /\ pc = "idle"
    /\ ticks >= 2
    /\ \A i \in Cells : grid[i].moves = 0
    /\ \A i \in Cells : CellY(i) = grid_height - 1 => grid[i].strain = "Sand"
    /\ \E i \in Cells : CellY(i) = grid_height - 2 /\ grid[i].strain = "Sand"
    /\ CountOf("Sand") = grid_width + 1

WaterAt(x, y) == grid[index(x, y)].strain = "Water"

\* C6 as stated: in the 8x8 scenario the Water is at (4,6) after 7 ticks
C6_WaterAt46After7Ticks ==
    (pc = "idle" /\ ticks = 7) => WaterAt(4, 6)

\* C6 amended: in the 8x8 scenario the Water falls one row per tick for 6
\* ticks and is at (4,6) after 6 ticks; the 7th tick spreads it sideways, to
\* (3,6) or (5,6); from then on it stays in row 6.
C6_WaterFallsSixThenSpreads ==
    pc = "idle" =>
        /\ ticks <= 6 => WaterAt(4, ticks)
        /\ ticks = 7 => (WaterAt(3, 6) \/ WaterAt(5, 6))
        /\ ticks >= 6 => \E x \in 0..7 : WaterAt(x, 6)
        /\ CountOf("Water") = 1

\* C6 witness: the 7th tick is over and the Water is at (3,6)
C6_Witness == pc = "idle" /\ ticks = 7 /\ WaterAt(3, 6) /\ grid[index(3, 6)].moves = 1

\* C7 as stated: in the 8x8 scenario particles_updated is 1 after each of the
\* first 6 ticks, and 0 after a tick in which no particle moved
C7_CountsOnlyMoving ==
    pc = "idle" =>
        /\ ticks \in 1..6 => particles_updated = 1
        /\ (ticks >= 1 /\ \A i \in Cells : grid[i].moves = 0) => particles_updated = 0

\* C7 amended: particles_updated counts every particle the tick processed,
\* moving or not: in the 8x8 scenario it is 9 (the 8 Wood cells of the floor
\* and the Water) after every tick, while the Water falls and afterwards.
C7_CountsEveryProcessed ==
    (pc = "idle" /\ ticks >= 1) =>
        /\ particles_updated = 9
        /\ particles_updated = Cardinality({i \in Cells : grid[i].strain # "Empty"})

\* C7 witness: the Water has reached row 6 and the tick still counted 9
C7_Witness ==
    pc = "idle" /\ ticks >= 7 /\ particles_updated = 9 /\ \E x \in 0..7 : WaterAt(x, 6)

InGrid(c) == c[1] >= 0 /\ c[1] < grid_width /\ c[2] >= 0 /\ c[2] < grid_height

\* C8: Bounds safety.  Every coordinate pair handed to get/set, by the spawn
\* at the mouse, the movement rules and the neighbour scans, lies inside the
\* grid, and no index leaves the Vec.
C8_BoundsSafety ==
    /\ ~panicked
    /\ \A c \in accessed : InGrid(c)

\* C8 witness: after a spawn with the cursor in the top-right corner, the scan
\* has processed a Water particle in the bottom-left corner
C8_Witness ==
    /\ last.op = "update"
    /\ last.strain = "Water"
    /\ last.x = 0
    /\ last.y = grid_height - 1
    /\ spawned # {}
    /\ cursor = <<grid_width - 1, 0>>
    /\ accessed # {}

\* C9: spawn at the mouse.  Every cell the brush writes holds the active
\* strain, with a flag opposite to the global parity and a base lifetime.
C9_SpawnFlagOppositeParity ==
    last.op = "begin" =>
        \A i \in spawned :
            /\ grid[i].strain = active_strain
            /\ grid[i].update = ~update
            /\ grid[i].lifetime \in (IF active_strain = "Fire" THEN FireLifetimes ELSE {-1})

\* C10: spawn_particle with x >= width or y >= height changes no cell, neither
\* the parity nor particles_updated, and does not fail.
C10_OutOfBoundsSpawnIsNoOp ==
    [][(calls' = calls + 1 /\ (last'.x >= grid_width \/ last'.y >= grid_height))
       => /\ grid' = grid
          /\ update' = update
          /\ particles_updated' = particles_updated
          /\ ~panicked'
          /\ accessed' = {}]_vars

\* C10 witness: an out-of-bounds call on a grid that holds particles, parity true
C10_Witness ==
    /\ last.op = "spawn_particle"
    /\ last.x = grid_width
    /\ last.y < grid_height
    /\ update
    /\ particles_updated > 0
    /\ \E i \in Cells : grid[i].strain # "Empty"

\* C11: set_row(material, row) with row < height, on a grid of any width:
\* afterwards every cell of the row holds the material, every cell of every
\* other row is unchanged, and no cell outside the grid is accessed.
C11_SetRowFillsRow ==
    [][last'.op = "set_row" =>
         /\ ~panicked'
         /\ \A c \in accessed' : InGrid(c)
         /\ \A i \in Cells :
              IF CellY(i) = last'.y
              THEN grid'[i].strain = last'.strain
              ELSE grid'[i] = grid[i]]_vars

\* the particle that the scan step found at (sx, sy), as it is after the step
CurAfter == grid'[CHOOSE i \in Cells : grid'[i].origin = Cur.origin]

\* the check of the claim: flag equal to the global parity and not Empty
PassesCheck == Cur.update = update /\ Cur.strain # "Empty"

\* C12: Eligibility.  A visited cell is processed if and only if its flag
\* equals the global parity and its strain is not Empty; every such cell, also
\* one of lifetime 0 that decays, gets its flag flipped to the opposite of the
\* parity and is counted once, so particles_updated grows by one exactly for
\* the cells that pass the check.
C12_Eligibility ==
    [][pc = "scan" =>
         /\ (last'.op \in {"update", "decay"}) <=> PassesCheck
         /\ PassesCheck => CurAfter.update = ~update
         /\ particles_updated' =
               particles_updated + (IF PassesCheck THEN 1 ELSE 0)]_vars

\* the step exchanged the program fields of cells a and b and nothing else
SwappedCells(a, b) ==
    /\ Fields(grid'[a]) = Fields(grid[b])
    /\ Fields(grid'[b]) = Fields(grid[a])
    /\ \A i \in Cells \ {a, b} : Fields(grid'[i]) = Fields(grid[i])

NoCellChanged == \A i \in Cells : Fields(grid'[i]) = Fields(grid[i])

\* C13: Gravity rule.  apply_gravity(x, y, dir) swaps (x,y) with (x,y+dir)
\* and returns true if and only if 0 <= y+dir < height and the target is
\* Empty or of strictly lower density than the mover; otherwise it returns
\* false and changes nothing.  A rising particle in row 1 moves into an Empty
\* cell of row 0.
C13_GravityRule ==
    [][last'.op = "apply_gravity" =>
         LET x == last'.x
             y == last'.y
             ty == y + last'.val
             ok == /\ ty >= 0
                   /\ ty < grid_height
                   /\ \/ grid[index(x, ty)].strain = "Empty"
                      \/ density(grid[index(x, ty)].strain)
                           < density(grid[index(x, y)].strain)
         IN  /\ last'.ret <=> ok
             /\ ok => SwappedCells(index(x, y), index(x, ty))
             /\ ~ok => NoCellChanged]_vars

\* C14: Spread rule.  apply_spread(x, y) with the drawn direction d moves the
\* particle to (x+d, y) exactly when 0 <= x+d < width and that cell is Empty;
\* only the grid edge in direction d or a non-Empty target blocks it.  A
\* liquid in column 0 with an Empty right neighbour spreads right on d = +1.
C14_SpreadRule ==
    [][last'.op = "apply_spread" =>
         LET x == last'.x
             y == last'.y
             tx == x + last'.val
             ok == /\ tx >= 0
                   /\ tx < grid_width
                   /\ grid[index(tx, y)].strain = "Empty"
         IN  /\ last'.ret <=> ok
             /\ ok => SwappedCells(index(x, y), index(tx, y))
             /\ ~ok => NoCellChanged]_vars

\* C15: Tumble rule.  apply_tumble(x, y) moves the particle to (x-1,y+1) if
\* that cell is in bounds and Empty, otherwise to (x+1,y+1) if that cell is in
\* bounds and Empty, otherwise returns false and changes nothing; it never
\* moves into a non-Empty cell and prefers down-left when both are Empty.
C15_TumbleRule ==
    [][last'.op = "apply_tumble" =>
         LET x == last'.x
             y == last'.y
             left == /\ y + 1 < grid_height
                     /\ x - 1 >= 0
                     /\ grid[index(x - 1, y + 1)].strain = "Empty"
             right == /\ y + 1 < grid_height
                      /\ x + 1 < grid_width
                      /\ grid[index(x + 1, y + 1)].strain = "Empty"
         IN  IF left
             THEN last'.ret /\ SwappedCells(index(x, y), index(x - 1, y + 1))
             ELSE IF right
             THEN last'.ret /\ SwappedCells(index(x, y), index(x + 1, y + 1))
             ELSE ~last'.ret /\ NoCellChanged]_vars

\* C15 witness: a first call of apply_tumble found both diagonals Empty and
\* moved the particle down-left; the down-right cell is still Empty
C15_Witness ==
    /\ last.op = "apply_tumble"
    /\ last.ret
    /\ calls = 1
    /\ last.x > 0
    /\ last.x + 1 < grid_width
    /\ last.y + 1 < grid_height
    /\ grid[index(last.x - 1, last.y + 1)].origin = index(last.x, last.y)
    /\ grid[index(last.x - 1, last.y + 1)].strain = last.strain
    /\ grid[index(last.x, last.y)].strain = "Empty"
    /\ grid[index(last.x + 1, last.y + 1)].strain = "Empty"

\* the first neighbour, in the order left, right, up, down, that holds the
\* trigger strain of the processed particle's reaction
FirstTrigger == CHOOSE i \in ReactSlots : \A j \in ReactSlots : i <= j

\* C16: Reaction, first match wins.  For a processed particle one draw is
\* made per table entry, against the first neighbour (left, right, up, down)
\* that holds the trigger; if that draw fails (it is above the chance) the
\* particle does not react in this tick, even if further neighbours hold the
\* trigger too; and the particle undergoes at most one reaction.
C16_FirstMatchWins ==
    [][(pc = "scan" /\ WillUpdate /\ ReactSlots # {}) =>
         /\ last'.react[FirstTrigger] > Table[1][2] => CurAfter.strain = Cur.strain
         /\ CurAfter.strain \in {Cur.strain, Table[1][3]}]_vars

\* the cells that the scan step turned from an ignitable strain into Fire
Ignited == {j \in Cells : ignite_chance(grid[j].strain) > 0 /\ grid'[j].strain = "Fire"}

\* C17: Probability threshold.  A reaction with chance c, and likewise an
\* ignition with ignition chance c, converts the cell only if a draw d of
\* [0,100) made for it is strictly below c.
C17_StrictThreshold ==
    [][pc = "scan" =>
         /\ (WillUpdate /\ ReactSlots # {} /\ CurAfter.strain # Cur.strain)
              => \E i \in ReactSlots : last'.react[i] < Table[1][2]
         /\ Ignited # {}
              => \E i \in IgniteSlots : last'.ignite[i] < ignite_chance("Wood")]_vars

\* cells a and b are neighbours along one axis
AxisAdjacent(a, b) ==
    \/ CellY(a) = CellY(b) /\ (CellX(a) = CellX(b) + 1 \/ CellX(b) = CellX(a) + 1)
    \/ CellX(a) = CellX(b) /\ (CellY(a) = CellY(b) + 1 \/ CellY(b) = CellY(a) + 1)

\* C18: Ignition locality.  A processed Fire particle converts at most one
\* cell; the converted cell held an ignitable strain (Wood), is one of the four
\* axis-aligned neighbours of the cell the Fire particle occupies after the
\* rise or spread of this step, and becomes Fire with a fresh base lifetime.
C18_IgnitionLocality ==
    [][pc = "scan" =>
         /\ Cardinality(Ignited) <= 1
         /\ \A j \in Ignited :
              /\ WillUpdate
              /\ Cur.strain = "Fire"
              /\ grid[j].strain = "Wood"
              /\ grid'[j].lifetime \in FireLifetimes
              /\ AxisAdjacent(j, CHOOSE i \in Cells : grid'[i].origin = Cur.origin)]_vars

Finite == {"Fire", "MoltenGlass"}

\* C19: lifetime/material invariant.  Under user spawns and ticks a cell that
\* holds Fire or MoltenGlass has lifetime >= 0, a cell that holds Empty, Sand,
\* Water, Wood or Glass has lifetime -1, and the dead-check never transforms a
\* particle of one of these five strains.
C19_LifetimeInvariant ==
    /\ \A i \in Cells :
         IF grid[i].strain \in Finite
         THEN grid[i].lifetime >= 0
         ELSE grid[i].lifetime = -1
    /\ last.op = "decay" => last.strain \in Finite

\* C19 witness: in a tick that began with a spawn of Wood the dead-check has
\* turned a MoltenGlass particle into Glass of lifetime -1
C19_Witness ==
    /\ last.op = "decay"
    /\ last.strain = "MoltenGlass"
    /\ grid[index(last.x, last.y)].strain = "Glass"
    /\ grid[index(last.x, last.y)].lifetime = -1
    /\ spawned # {}
    /\ active_strain = "Wood"

Static == {"Wood", "Glass"}

\* the cell that holds, after the step, the particle that cell i holds before it
CellAfter(i) == CHOOSE j \in Cells : grid'[j].origin = grid[i].origin

\* C20: static materials.  No movement rule swaps a cell that holds Wood or
\* Glass, whatever its neighbours are: during the scan such a particle stays
\* in its cell, and its strain changes only in place, Wood to Fire by the
\* ignition of a processed Fire particle and Glass to MoltenGlass by its own
\* reaction; before the scan only a spawn of Empty replaces it.
C20_StaticFrame ==
    [][\A i \in Cells : grid[i].strain \in Static =>
         IF pc = "scan"
         THEN LET q == grid'[CellAfter(i)]
              IN  IF q.strain = grid[i].strain
                  THEN CellAfter(i) = i /\ q.moves = grid[i].moves
                  ELSE \/ /\ grid[i].strain = "Wood"
                          /\ q.strain = "Fire"
                          /\ CellAfter(i) = i
                          /\ q.moves = grid[i].moves
                          /\ WillUpdate /\ Cur.strain = "Fire"
                       \/ /\ grid[i].strain = "Glass"
                          /\ q.strain = "MoltenGlass"
                          /\ i = index(sx, sy)
                          /\ WillUpdate
         ELSE \/ grid'[i].strain = grid[i].strain
              \/ /\ grid'[i].strain = "Empty"
                 /\ active_strain' = "Empty"
                 /\ i \in spawned']_vars

\* C20 witness: the scan has processed a falling particle directly above a
\* Wood cell, and the Wood has not moved
C20_Witness ==
    /\ last.op = "update"
    /\ last.strain \in Fallers
    /\ last.y + 1 < grid_height
    /\ grid[index(last.x, last.y + 1)].strain = "Wood"
    /\ grid[index(last.x, last.y + 1)].moves = 0
    /\ grid[index(last.x, last.y + 1)].origin = index(last.x, last.y + 1)

\* the scan has not reached cell i yet (bottom row first, left to right)
Unvisited(i) == CellY(i) < sy \/ (CellY(i) = sy /\ CellX(i) > sx)

\* at the end of a tick: every particle has been visited; it has been
\* processed or decayed in this tick or in the previous one; and one that was
\* only skipped has a flag equal to the parity of the next tick
SkippedAtMostOnce ==
    (pc = "idle" /\ ticks >= 1) =>
        \A i \in Cells : grid[i].strain # "Empty" =>
            /\ grid[i].done \in {"yes", "skipped"}
            /\ grid[i].done = "yes" \/ grid[i].done0 \in {"yes", "unknown"}
            /\ grid[i].done = "skipped" => grid[i].update = update

\* a scan step moves a non-Empty particle only out of the cell it is
\* visiting or out of a cell it has visited before
DisplacedOnlyFromVisited ==
    pc = "scan" =>
        \A i \in Cells :
            (grid[i].strain # "Empty" /\ CellAfter(i) # i) => ~Unvisited(i)

\* C21: bounded skipping.  Every non-Empty particle on the grid is visited in
\* every tick and is processed or decayed in at least one of any two
\* consecutive ticks; a particle whose flag differs from the parity is skipped
\* for one tick and is eligible in the next; and no non-Empty particle is
\* displaced out of a cell the current scan has not visited yet.
C21_BoundedSkipping == [](SkippedAtMostOnce) /\ [][DisplacedOnlyFromVisited]_vars

\* C21 witness: after the second tick a Sand particle that the first tick
\* only skipped (it was spawned while the parity was true) has been processed
\* and has sunk through the Water below it, which it displaced upwards
C21_Witness ==
    /\ pc = "idle"
    /\ ticks = 2
    /\ \E x \in 0..(grid_width - 1), y \in 0..(grid_height - 2) :
         /\ grid[index(x, y + 1)].strain = "Sand"
         /\ grid[index(x, y + 1)].done0 = "skipped"
         /\ grid[index(x, y + 1)].done = "yes"
         /\ grid[index(x, y + 1)].origin = index(x, y)
         /\ grid[index(x, y)].strain = "Water"
         /\ grid[index(x, y)].origin = index(x, y + 1)
         /\ grid[index(x, y)].done = "yes"

\* no cell holds Fire or MoltenGlass
BurntOut == \A i \in Cells : grid[i].strain \notin Finite

\* a scan step makes Fire only out of Wood, and MoltenGlass only out of the
\* processed Sand or Glass particle while a neighbour cell holds Fire
NoNewBurning ==
    pc = "scan" =>
        \A i \in Cells :
            LET q == grid'[CellAfter(i)]
            IN  /\ (q.strain = "Fire" /\ grid[i].strain # "Fire")
                     => grid[i].strain = "Wood"
                /\ (q.strain = "MoltenGlass" /\ grid[i].strain # "MoltenGlass")
                     => /\ grid[i].strain \in {"Sand", "Glass"}
                        /\ i = index(sx, sy)
                        /\ \E j \in Cells : AxisAdjacent(i, j) /\ grid[j].strain = "Fire"

\* the update arm takes one off the lifetime of a Fire or MoltenGlass
\* particle, wherever the particle ends up, unless a reaction of the same
\* update turns it into a strain that is neither
CountsDown ==
    (pc = "scan" /\ last'.op = "update" /\ Cur.strain \in Finite)
        => \/ CurAfter.strain \notin Finite
           \/ /\ CurAfter.strain = Cur.strain
              /\ CurAfter.lifetime = Cur.lifetime - 1

\* C22: burn-out.  Without spawns and with ticks that keep running, the grid
\* eventually holds no Fire and no MoltenGlass and stays that way forever:
\* every update of a Fire or MoltenGlass particle counts its lifetime down,
\* new Fire arises only from Wood and new MoltenGlass only next to Fire.
C22_BurnsOut ==
    <>[]BurntOut /\ [][CountsDown]_vars /\ [][NoNewBurning]_vars

\* C22 witness: many ticks after the start, a tick in which the dead-check
\* turned the last MoltenGlass, made by a reaction during the run, into Glass
C22_Witness ==
    /\ pc = "idle"
    /\ ticks = TickCap
    /\ BurntOut
    /\ \E i \in Cells : grid[i].strain = "Glass" /\ grid[i].decayed # "no"

====
